---- MODULE Spec2Model ----
(***************************************************************************)
(* A model of the blitzdenk agent runtime: the run loop of Agent::run      *)
(* (src/src/agent.rs), the worker task and the foreground calls of         *)
(* AgentRunner (src/src/tui.rs), the key and event handling of the         *)
(* terminal foreground (src/src/tui.rs) and the permission protocol of     *)
(* the side-effecting tools (src/src/tools/{write,edit,bash}.rs).          *)
(***************************************************************************)
EXTENDS Integers, Sequences, FiniteSets, TLC

VARIABLES
    agentChat,      \* Agent.chat.messages, the Conversation of the session
    running,        \* Agent.running
    todo,           \* AgentContext.todo_list: id -> status ("absent" = no entry)
    agentLock,      \* holder of the Mutex<Agent>: "free" or "worker"
    state,          \* AgentRunner.state, the flag is_running() reads
    cmdQueue,       \* number of AgentCmd::Run waiting in cmd_channel
    abortPermit,    \* the permit stored in the abort Notify
    permitRun,      \* the run the stored permit was issued for: the number of
                    \* the run in progress or requested when cancel() stored
                    \* it, 0 when none was, -1 without a stored permit
    evq,            \* the Permission and Timeout events waiting in msg_rx, in order
    wpc,            \* position of the worker task
    chat,           \* the local `chat` of Agent::run
    ncalls,         \* number of tool calls of the response being resolved
    ci,             \* index of the tool call being resolved
    perm,           \* the oneshot of the latest PermissionRequest
    permId,         \* call identifier the latest PermissionRequest belongs to
    fpc,            \* position of the foreground task
    popup,          \* SessionState.popup_state
    slot,           \* Confirm.req.respond: "some" until taken
    effects,        \* call identifiers whose side effect was performed
    granted,        \* call identifiers whose request was answered true
    published,      \* messages the current run sent as Message events, in order
    rlEvents,       \* RateLimit events sent in the session
    outcome,        \* how the latest Agent::run ended
    runNo,          \* number of Agent::run executions entered so far
    turnNo,         \* backend turns completed in the session
    retries,        \* rate-limit failures of the backend in the session
    inRun,          \* number of Agent::run executions in progress
    prompts,        \* number of prompts the user has submitted
    calls,          \* tool calls the backend requested in the session
    cancelInTool,   \* cancel() was called while a tool call executed, and the
                    \* permit it stored is not consumed yet
    saved,          \* the session file save() wrote: <<>> or <<the JSON text>>
    file,           \* content of the file at the path of an edit or multi_edit call
    editArgs,       \* the `edits` argument of the multi_edit call
    fileContent,    \* the local file_content of MultiEdit::run
    newContent,     \* the local new_content of MultiEdit::run
    ek,             \* number of edits MultiEdit::run has applied
    mpc,            \* position of MultiEdit::run ("idle": not called)
    writes,         \* calls of tokio::fs::write MultiEdit::run has made
    editResult,     \* what MultiEdit::run returned
    message,        \* PermissionRequest.message of the call: the patch it shows
    changed         \* another process wrote the file after the call had read it

vars == <<agentChat, running, todo, agentLock, state, cmdQueue, abortPermit,
          permitRun, evq,
          wpc, chat, ncalls, ci, perm, permId, fpc, popup, slot, effects,
          granted, published, rlEvents, outcome, runNo, turnNo, retries, inRun, prompts,
          calls, cancelInTool,
          saved, file, editArgs, fileContent, newContent, ek, mpc, writes, editResult,
          message, changed>>

\* The variables of a call of Edit::run or MultiEdit::run.
editVars == <<file, editArgs, fileContent, newContent, ek, mpc, writes, editResult,
              message, changed>>

------------------------------------------------------------------------------
\* Bounds of the model.

\* prompts the user submits (each is followed by a start_cycle)
MaxRuns == 2
\* backend responses, tool calls and rate-limit failures of the session
MaxSteps == 3
\* tool calls in one backend response
MaxCalls == 2
\* entries of the task ledger
MaxTodos == 1
\* entries of the ledgers the ledger queries are applied to
LedgerSize == 3
\* characters of the file a multi_edit call edits
MaxFileLen == 2
\* characters of the old_string and of the new_string of an edit
MaxPatLen == 1
\* edits of one multi_edit call
MaxEdits == 2

TodoIds == 1..MaxTodos

\* Status of a TodoItem; "absent" stands for a key with no entry.
Status == {"pending", "in_progress", "completed"}

\* Tools registered by AgentRunner::new.  "read" stands for every registered
\* tool that asks no permission (glob, grep, read, fetch, todo_read, ls).
Registered == {"read", "todo_write", "write", "edit", "bash"}

\* Tools that ask for permission before their side effect.
PermTools == {"write", "edit", "bash"}

\* Names a backend response can carry: multi_edit is defined in edit.rs but
\* never registered.
ToolNames == Registered \cup {"multi_edit"}

\* Shape of the argument payload of a call.
ArgShapes == {"ok", "missing", "not_object"}

\* Number of assistant texts of one response.
TextCounts == {0, 1}

\* The responses exec_chat returns: nt texts and n tool calls; the responses
\* drawn with tool calls carry one text.
Responses == {r \in [nt : TextCounts, n : 0..MaxCalls] : r.n = 0 \/ r.nt = 1}

\* Textual descriptions of backend errors, as sequences of fragments.
ErrorTexts == {<<"429", "rate_limit", "exceeded">>, <<"rate limit", "reached">>,
               <<"overloaded">>}

\* Errors exec_chat can return: web = TRUE is genai::Error::WebModelCall,
\* web = FALSE any other variant of genai::Error.
BackendErrors == [web : BOOLEAN, text : ErrorTexts]

------------------------------------------------------------------------------
\* Messages.

Msg(k, id, txt) == [k |-> k, id |-> id, txt |-> txt, cache |-> FALSE]

\* add_system_msg: the system prompt carries the cache hint.
SystemMsg == [k |-> "system", id |-> <<0, 0, 0>>, txt |-> "prompt", cache |-> TRUE]

UserMsg(n) == Msg("user", <<n, 0, 0>>, "prompt")

AssistantMsg(r, t, j) == Msg("assistant", <<r, t, j>>, "text")

ToolCallsMsg(r, t, n) == Msg("tool_calls", <<r, t, n>>, "calls")

\* A tool result: txt is "ok", or the text of the error the handler returned.
ToolResultMsg(id, txt) == Msg("tool_result", id, txt)

ContinueMsg(r, t) == Msg("user", <<r, t, 0>>, "continue")

MsgEvent(m) == [e |-> "Message", m |-> m]

Event(e) == [e |-> e, m |-> SystemMsg]

------------------------------------------------------------------------------
\* Pure functions of Agent and AgentContext.

\* str::contains on the textual description of an error.
Contains(text, frag) == \E i \in 1..Len(text) : text[i] = frag

\* A retry test that inspects the text of every variant of genai::Error.
IsRateLimitAnyVariant(err) ==
    Contains(err.text, "rate_limit") \/ Contains(err.text, "rate limit")

\* The retry test of Agent::run: only WebModelCall errors are inspected.
IsRateLimit(err) ==
    err.web /\ (Contains(err.text, "rate_limit") \/ Contains(err.text, "rate limit"))

\* Agent::set_caching: clear every hint, then hint the first two and the last two.
SetCaching(msgs) ==
    [i \in 1..Len(msgs) |->
        [msgs[i] EXCEPT !.cache = (i <= 2 \/ i > Len(msgs) - 2)]]

\* A ledger check that never finds open work.
HasOpenTodosNever(t) == FALSE

\* A ledger check that takes every item for open work.
HasOpenTodosCountsAll(t) == \E i \in DOMAIN t : t[i] \in Status

\* AgentContext::has_open_todos
HasOpenTodos(t) == \E i \in DOMAIN t : t[i] \in Status /\ t[i] # "completed"

\* AgentContext::get_open_todos
GetOpenTodos(t) == {i \in DOMAIN t : t[i] \in Status /\ t[i] # "completed"}

\* Messages without their cache hints.
Strip(msgs) == [i \in 1..Len(msgs) |-> [msgs[i] EXCEPT !.cache = FALSE]]

Kinds(evs) == [i \in 1..Len(evs) |-> evs[i].e]

MsgEvents(msgs) == [i \in 1..Len(msgs) |-> MsgEvent(msgs[i])]

\* Identifier of the tool call being resolved.
CallId == <<runNo, turnNo, ci>>

------------------------------------------------------------------------------
\* What AgentRunner::new and SessionState::new construct, but for the running
\* flag of the agent and the task ledger.
Idle ==
    /\ agentChat = <<SystemMsg>>
    /\ agentLock = "free"
    /\ state = FALSE
    /\ cmdQueue = 0
    /\ abortPermit = FALSE
    /\ permitRun = -1
    /\ evq = <<>>
    /\ wpc = "recv"
    /\ chat = <<>>
    /\ ncalls = 0
    /\ ci = 0
    /\ perm = "none"
    /\ permId = <<0, 0, 0>>
    /\ fpc = "loop"
    /\ popup = "None"
    /\ slot = "none"
    /\ effects = {}
    /\ granted = {}
    /\ published = <<>>
    /\ rlEvents = 0
    /\ outcome = "none"
    /\ runNo = 0
    /\ turnNo = 0
    /\ retries = 0
    /\ inRun = 0
    /\ prompts = 0
    /\ calls = 0
    /\ cancelInTool = FALSE
    /\ saved = <<>>

\* No call of Edit::run or MultiEdit::run is followed step by step: the run
\* loop takes edit as one of the tools that ask for permission, and
\* multi_edit is not among the tools AgentRunner::new registers.
NoEdit ==
    /\ file = <<>>
    /\ editArgs = <<>>
    /\ fileContent = <<>>
    /\ newContent = <<>>
    /\ ek = 0
    /\ mpc = "idle"
    /\ writes = 0
    /\ editResult = "none"
    /\ message = <<>>
    /\ changed = FALSE

\* The state after construction: SessionState::new and AgentRunner::new.
Init ==
    /\ Idle
    /\ NoEdit
    /\ running = FALSE
    /\ todo = [i \in TodoIds |-> "absent"]

agentVars == <<agentChat, running, todo>>
fgVars == <<fpc, popup, slot, prompts>>
callVars == <<ncalls, ci>>
permVars == <<perm, permId, granted>>

\* What the session has spent of MaxSteps.
Spent == turnNo + calls + retries

\* Events whose arrival changes the popup of the foreground; every other
\* event only adds to what the foreground displays.
PopupEvents == {"Permission", "Timeout"}

\* sender.send(ev) for each event of evs, in order.
Publish(evs) ==
    /\ evq' = evq \o SelectSeq(Kinds(evs), LAMBDA e : e \in PopupEvents)
    /\ published' = published \o
          [i \in 1..Len(SelectSeq(evs, LAMBDA ev : ev.e = "Message")) |->
              SelectSeq(evs, LAMBDA ev : ev.e = "Message")[i].m]
    /\ rlEvents' = rlEvents + Len(SelectSeq(evs, LAMBDA ev : ev.e = "RateLimit"))

------------------------------------------------------------------------------
\* The worker task spawned by AgentRunner::new.

\* cmd_rx.recv() yields a Run command; `if *_state.lock().await { continue }`.
WorkerRecv ==
    /\ wpc = "recv"
    /\ cmdQueue > 0
    /\ cmdQueue' = cmdQueue - 1
    /\ wpc' = IF state THEN "recv" ELSE "lock"
    /\ UNCHANGED <<agentVars, agentLock, state, abortPermit, permitRun, evq, chat, callVars,
                   permVars, fgVars, effects, published, outcome, runNo, turnNo, calls,
                   retries, rlEvents, inRun, cancelInTool>>
    /\ UNCHANGED <<editVars, saved>>

\* let mut agent = _agent.lock().await
WorkerLock ==
    /\ wpc = "lock"
    /\ agentLock = "free"
    /\ agentLock' = "worker"
    /\ wpc' = "set_state"
    /\ UNCHANGED <<agentVars, state, cmdQueue, abortPermit, permitRun, evq, chat, callVars,
                   permVars, fgVars, effects, published, outcome, runNo, turnNo, calls,
                   retries, rlEvents, inRun, cancelInTool>>
    /\ UNCHANGED <<editVars, saved>>

\* *_state.lock().await = true
WorkerSetState ==
    /\ wpc = "set_state"
    /\ state' = TRUE
    /\ wpc' = "run"
    /\ UNCHANGED <<agentVars, agentLock, cmdQueue, abortPermit, permitRun, evq, chat, callVars,
                   permVars, fgVars, effects, published, outcome, runNo, turnNo, calls,
                   retries, rlEvents, inRun, cancelInTool>>
    /\ UNCHANGED <<editVars, saved>>

\* Entry of Agent::run: the AlreadyRunning guard, running = true, chat.clone().
RunEntry ==
    /\ wpc = "run"
    /\ IF running
       THEN /\ outcome' = "already_running"
            /\ wpc' = "ret"
            /\ UNCHANGED <<running, chat, runNo, inRun, published>>
       ELSE /\ running' = TRUE
            /\ chat' = agentChat
            /\ runNo' = runNo + 1
            /\ inRun' = inRun + 1
            /\ published' = <<>>
            /\ outcome' = "none"
            /\ wpc' = "select"
    /\ cancelInTool' = FALSE
    /\ UNCHANGED <<agentChat, todo, agentLock, state, cmdQueue, abortPermit, permitRun, evq,
                   callVars, permVars, fgVars, effects, turnNo, calls, retries, rlEvents>>
    /\ UNCHANGED <<editVars, saved>>

\* A tail of Agent::run that forgets to reset the running flag.
FinishLeavesRunning(c, how) ==
    /\ agentChat' = c
    /\ chat' = c
    /\ running' = TRUE
    /\ outcome' = how
    /\ inRun' = inRun - 1
    /\ wpc' = "ret"

\* The tail of Agent::run after a break: self.chat = chat; running = false; Ok(()).
Finish(c, how) ==
    /\ agentChat' = c
    /\ chat' = c
    /\ running' = FALSE
    /\ outcome' = how
    /\ inRun' = inRun - 1
    /\ wpc' = "ret"

\* Top of the loop: set_caching on self.chat, then the first poll of select!.
\* A permit stored in the Notify completes abort.notified() at once: break.
SelectPoll ==
    /\ wpc = "select"
    /\ IF abortPermit
       THEN /\ abortPermit' = FALSE
            /\ permitRun' = -1
            /\ cancelInTool' = FALSE
            /\ Finish(chat, "abort")
       ELSE /\ agentChat' = SetCaching(agentChat)
            /\ wpc' = "await"
            /\ UNCHANGED <<abortPermit, permitRun, chat, running, outcome, inRun, cancelInTool>>
    /\ UNCHANGED <<todo, agentLock, state, cmdQueue, evq, callVars, permVars, fgVars,
                   effects, published, runNo, turnNo, calls, retries, rlEvents>>
    /\ UNCHANGED <<editVars, saved>>

\* An abort that tells the foreground with an event.
AbortWinsNotifies ==
    /\ wpc = "await"
    /\ abortPermit
    /\ abortPermit' = FALSE
    /\ permitRun' = -1
    /\ cancelInTool' = FALSE
    /\ Publish(<<Event("Timeout")>>)
    /\ Finish(chat, "abort")
    /\ UNCHANGED <<todo, agentLock, state, cmdQueue, callVars, permVars, fgVars,
                   effects, runNo, turnNo, calls, retries>>
    /\ UNCHANGED <<editVars, saved>>

\* abort.notified() wins the race while the backend call is in flight.
AbortWins ==
    /\ wpc = "await"
    /\ abortPermit
    /\ abortPermit' = FALSE
    /\ permitRun' = -1
    /\ cancelInTool' = FALSE
    /\ Finish(chat, "abort")
    /\ UNCHANGED <<todo, agentLock, state, cmdQueue, evq, callVars, permVars, fgVars,
                   effects, published, runNo, turnNo, calls, retries, rlEvents>>
    /\ UNCHANGED <<editVars, saved>>

\* A timeout that returns without writing the local chat back.
TimeoutDropsHistory ==
    /\ wpc = "await"
    /\ Publish(<<Event("Timeout")>>)
    /\ Finish(agentChat, "timeout")
    /\ UNCHANGED <<todo, agentLock, state, cmdQueue, abortPermit, permitRun, callVars, permVars,
                   fgVars, effects, runNo, turnNo, calls, retries, cancelInTool>>
    /\ UNCHANGED <<editVars, saved>>

\* sleep(TIMEOUT_DURATION) wins the race: send Timeout, break.
TimeoutWins ==
    /\ wpc = "await"
    /\ Publish(<<Event("Timeout")>>)
    /\ Finish(chat, "timeout")
    /\ UNCHANGED <<todo, agentLock, state, cmdQueue, abortPermit, permitRun, callVars, permVars,
                   fgVars, effects, runNo, turnNo, calls, retries, cancelInTool>>
    /\ UNCHANGED <<editVars, saved>>

\* The termination check after a response without tool calls: c is the local
\* chat with the texts of the response appended.
TerminationCheck(c) ==
    IF HasOpenTodos(todo)
    THEN /\ chat' = Append(c, ContinueMsg(runNo, turnNo + 1))
         /\ wpc' = "select"
         /\ UNCHANGED <<agentChat, running, outcome, inRun>>
    ELSE Finish(c, "stop")

\* exec_chat returns Ok: nt assistant texts and n tool calls.  The TokenCost
\* event of a response changes nothing the model keeps and is left out.
BackendOk(nt, n) ==
    /\ wpc = "await"
    /\ Spent + 1 + n <= MaxSteps
    /\ LET t == turnNo + 1
           texts == [j \in 1..nt |-> AssistantMsg(runNo, t, j)]
           batch == IF n > 0 THEN <<ToolCallsMsg(runNo, t, n)>> ELSE <<>>
           c == chat \o texts \o batch
       IN /\ Publish(MsgEvents(texts \o batch))
          /\ turnNo' = t
          /\ ncalls' = n
          /\ calls' = calls + n
          /\ IF n > 0
             THEN /\ chat' = c
                  /\ ci' = 1
                  /\ wpc' = "tool"
                  /\ UNCHANGED <<agentChat, running, outcome, inRun>>
             ELSE /\ ci' = 0
                  /\ TerminationCheck(c)
    /\ UNCHANGED <<todo, agentLock, state, cmdQueue, abortPermit, permitRun, permVars,
                   fgVars, effects, runNo, retries, cancelInTool>>
    /\ UNCHANGED <<editVars, saved>>

\* exec_chat returns a rate-limit error: running = false, send RateLimit,
\* sleep, continue.
BackendRateLimited(err) ==
    /\ wpc = "await"
    /\ IsRateLimit(err)
    /\ Spent < MaxSteps
    /\ running' = FALSE
    /\ Publish(<<Event("RateLimit")>>)
    /\ retries' = retries + 1
    /\ wpc' = "backoff"
    /\ UNCHANGED <<agentChat, todo, agentLock, state, cmdQueue, abortPermit, permitRun, chat,
                   callVars, permVars, fgVars, effects, outcome, runNo, turnNo, calls,
                   inRun, cancelInTool>>
    /\ UNCHANGED <<editVars, saved>>

\* A backoff after which the run gives up instead of retrying the turn.
BackoffGivesUp ==
    /\ wpc = "backoff"
    /\ outcome' = "fatal"
    /\ inRun' = inRun - 1
    /\ wpc' = "ret"
    /\ UNCHANGED <<agentVars, agentLock, state, cmdQueue, abortPermit, permitRun, evq, chat,
                   callVars, permVars, fgVars, effects, published, runNo,
                   turnNo, calls, retries, rlEvents, cancelInTool>>
    /\ UNCHANGED <<editVars, saved>>

\* sleep(Duration::from_secs(10)) is over: continue with the same turn.
BackoffDone ==
    /\ wpc = "backoff"
    /\ wpc' = "select"
    /\ UNCHANGED <<agentVars, agentLock, state, cmdQueue, abortPermit, permitRun, evq, chat,
                   callVars, permVars, fgVars, effects, published, outcome, runNo,
                   turnNo, calls, retries, rlEvents, inRun, cancelInTool>>
    /\ UNCHANGED <<editVars, saved>>

\* exec_chat returns any other error: running = false, return Err(..).
BackendFatal(err) ==
    /\ wpc = "await"
    /\ ~IsRateLimit(err)
    /\ running' = FALSE
    /\ outcome' = "fatal"
    /\ inRun' = inRun - 1
    /\ wpc' = "ret"
    /\ UNCHANGED <<agentChat, todo, agentLock, state, cmdQueue, abortPermit, permitRun, evq,
                   chat, callVars, permVars, fgVars, effects, published, runNo,
                   turnNo, calls, retries, rlEvents, cancelInTool>>
    /\ UNCHANGED <<editVars, saved>>

\* The worker after agent.run returned: an Err is sent as a system Message,
\* then *_state = false and the agent guard is dropped.
WorkerRunDone ==
    /\ wpc = "ret"
    /\ IF outcome \in {"fatal", "already_running"}
       THEN Publish(<<MsgEvent(Msg("system", <<runNo, turnNo, 0>>, outcome))>>)
       ELSE UNCHANGED <<evq, published, rlEvents>>
    /\ state' = FALSE
    /\ agentLock' = "free"
    /\ wpc' = "recv"
    /\ UNCHANGED <<agentVars, cmdQueue, abortPermit, permitRun, chat, callVars, permVars,
                   fgVars, effects, outcome, runNo, turnNo, calls, retries, inRun,
                   cancelInTool>>
    /\ UNCHANGED <<editVars, saved>>

------------------------------------------------------------------------------
\* Resolving the tool calls of a response, one after the other.

\* A loop that returns from the run when a handler fails.
AfterResultStopsOnError(txt) ==
    /\ Publish(<<MsgEvent(ToolResultMsg(CallId, txt))>>)
    /\ chat' = Append(chat, ToolResultMsg(CallId, txt))
    /\ ci' = ci
    /\ wpc' = IF txt # "ok" THEN "ret" ELSE IF ci < ncalls THEN "tool" ELSE "select"

\* A loop that keeps the error of a handler out of the conversation.
AfterResultDropsError(txt) ==
    /\ Publish(<<MsgEvent(ToolResultMsg(CallId, txt))>>)
    /\ chat' = IF txt = "ok" THEN Append(chat, ToolResultMsg(CallId, txt)) ELSE chat
    /\ IF ci < ncalls
       THEN ci' = ci + 1 /\ wpc' = "tool"
       ELSE ci' = ci /\ wpc' = "select"

\* A loop that starts the next handler before it appends the result.
AfterResultStartsNextFirst(txt) ==
    /\ Publish(<<MsgEvent(ToolResultMsg(CallId, txt))>>)
    /\ IF ci < ncalls
       THEN ci' = ci + 1 /\ wpc' = "tool" /\ chat' = chat
       ELSE ci' = ci /\ wpc' = "select"
            /\ chat' = Append(chat, ToolResultMsg(CallId, txt))

\* The result of the call being resolved: send it as a Message, append it to
\* the local chat, go on with the next call or with the next turn.
AfterResult(txt) ==
    /\ Publish(<<MsgEvent(ToolResultMsg(CallId, txt))>>)
    /\ chat' = Append(chat, ToolResultMsg(CallId, txt))
    /\ IF ci < ncalls
       THEN ci' = ci + 1 /\ wpc' = "tool"
       ELSE ci' = ci /\ wpc' = "select"

\* An unwrap() fails inside Agent::run: the task unwinds, dropping the agent
\* guard; running and the runner's state flag stay as they are.  cause tells
\* the unwrap: "panic_lookup" for tool_box.get, "panic_args" for from_value.
Panic(cause) ==
    /\ wpc' = "panicked"
    /\ agentLock' = "free"
    /\ outcome' = cause
    /\ inRun' = inRun - 1
    /\ UNCHANGED <<evq, published, rlEvents, chat, ci>>

\* A permission tool that reports success whatever the reply was.
ReplyOutcomeAlwaysOk(reply) ==
    [effect |-> reply = "true", txt |-> "ok"]

\* A permission tool that performs its side effect whatever the reply was.
ReplyOutcomeAlwaysActs(reply) ==
    CASE reply = "true" -> [effect |-> TRUE, txt |-> "ok"]
      [] reply = "false" -> [effect |-> TRUE, txt |-> "declined"]
      [] OTHER -> [effect |-> TRUE, txt |-> "closed"]

\* What a permission tool does with the reply of its oneshot: `if !rx.await?`.
ReplyOutcome(reply) ==
    CASE reply = "true" -> [effect |-> TRUE, txt |-> "ok"]
      [] reply = "false" -> [effect |-> FALSE, txt |-> "declined"]
      [] OTHER -> [effect |-> FALSE, txt |-> "closed"]

\* PermissionRequest::new and ctx.sender.send(AgentEvent::Permission(req)).
RequestPermission ==
    /\ perm' = "pending"
    /\ permId' = CallId
    /\ Publish(<<Event("Permission")>>)
    /\ wpc' = "perm_wait"
    /\ UNCHANGED <<chat, ci>>

\* The checks a permission tool makes before it asks: edit reads the file and
\* looks for old_string; write and bash ask at once.
PreCheckFails(name, pre) == name = "edit" /\ pre = "fail"

\* tool_box.get(name).unwrap(), from_value(args).unwrap(), then the handler up
\* to its first suspension.
ToolDispatch(name, shape, pre) ==
    /\ wpc = "tool"
    /\ ~(name = "todo_write" /\ shape = "ok")
    /\ IF name \notin Registered \/ shape = "not_object"
       THEN /\ Panic(IF name \notin Registered THEN "panic_lookup" ELSE "panic_args")
            /\ UNCHANGED <<perm, permId>>
       ELSE /\ UNCHANGED <<agentLock, outcome, inRun>>
            /\ IF shape = "missing"
               THEN AfterResult("error") /\ UNCHANGED <<perm, permId>>
               ELSE IF name \in PermTools
               THEN IF PreCheckFails(name, pre)
                    THEN AfterResult("error") /\ UNCHANGED <<perm, permId>>
                    ELSE RequestPermission
               ELSE /\ wpc' = "tool_exec"
                    /\ UNCHANGED <<evq, published, rlEvents, chat, ci, perm, permId>>
    /\ UNCHANGED <<agentVars, state, cmdQueue, abortPermit, permitRun, ncalls, granted, fgVars,
                   effects, runNo, turnNo, calls, retries, cancelInTool>>
    /\ UNCHANGED <<editVars, saved>>

\* A tool without permission request completes, with Ok or with an I/O error.
ToolFinish(r) ==
    /\ wpc = "tool_exec"
    /\ AfterResult(r)
    /\ UNCHANGED <<agentVars, agentLock, state, cmdQueue, abortPermit, permitRun, ncalls,
                   permVars, fgVars, effects, outcome, runNo, turnNo, calls, retries, inRun, cancelInTool>>
    /\ UNCHANGED <<editVars, saved>>

\* A permission tool that goes on without the reply to its request.
ToolResumeUnanswered(io) ==
    /\ wpc = "perm_wait"
    /\ effects' = IF ReplyOutcome(perm).effect THEN effects \cup {CallId} ELSE effects
    /\ AfterResult(IF ReplyOutcome(perm).txt = "ok" THEN io ELSE ReplyOutcome(perm).txt)
    /\ perm' = "none"
    /\ UNCHANGED <<agentVars, agentLock, state, cmdQueue, abortPermit, permitRun, ncalls,
                   permId, granted, fgVars, outcome, runNo, turnNo, calls, retries, inRun,
                   cancelInTool>>
    /\ UNCHANGED <<editVars, saved>>

\* The oneshot of a permission tool resolves: the side effect is performed
\* after a true reply only and ends with Ok or with an I/O error (io); the
\* result follows.
ToolResume(io) ==
    /\ wpc = "perm_wait"
    /\ perm \in {"true", "false", "dropped"}
    /\ effects' = IF ReplyOutcome(perm).effect THEN effects \cup {CallId} ELSE effects
    /\ AfterResult(IF ReplyOutcome(perm).txt = "ok" THEN io ELSE ReplyOutcome(perm).txt)
    /\ perm' = "none"
    /\ UNCHANGED <<agentVars, agentLock, state, cmdQueue, abortPermit, permitRun, ncalls,
                   permId, granted, fgVars, outcome, runNo, turnNo, calls, retries, inRun,
                   cancelInTool>>
    /\ UNCHANGED <<editVars, saved>>

\* The todo_write tool sets the status of one ledger item.
ToolTodoWrite(i, st) ==
    /\ wpc = "tool"
    /\ todo' = [todo EXCEPT ![i] = st]
    /\ AfterResult("ok")
    /\ UNCHANGED <<agentChat, running, agentLock, state, cmdQueue, abortPermit, permitRun,
                   ncalls, permVars, fgVars, effects, outcome, runNo, turnNo, calls,
                   retries, inRun, cancelInTool>>
    /\ UNCHANGED <<editVars, saved>>

------------------------------------------------------------------------------
\* The foreground: the loop of tui::run, SessionState::handle_input and the
\* calls it makes on AgentRunner.

\* A liveness query that reads Agent.running.
IsRunningReadsAgent == running

\* AgentRunner::is_running: reads the state flag, never the agent lock.
IsRunning == state

\* A Run command is accepted and its Agent::run is not entered yet.
RunPending == cmdQueue > 0 \/ wpc \in {"lock", "set_state", "run"}

\* The run a cancel() called now is meant for: the run in progress, else the
\* run requested, else none (0).
CancelledRun ==
    IF inRun = 1 THEN runNo ELSE IF RunPending THEN runNo + 1 ELSE 0

\* AgentRunner::cancel: abort.notify_one() wakes the waiting select! or, with
\* no waiter, stores a permit in the Notify.
Cancel ==
    /\ abortPermit' = TRUE
    /\ permitRun' = IF abortPermit THEN permitRun ELSE CancelledRun
    /\ cancelInTool' = (cancelInTool \/ wpc \in {"tool_exec", "perm_wait"})

\* tui::run returns and the process ends: AgentRunner::drop aborts the worker
\* task, and every object of the session is gone with the process.
Teardown ==
    /\ fpc' = "exited"
    /\ wpc' = "killed"
    /\ agentChat' = <<>>
    /\ running' = FALSE
    /\ todo' = [i \in TodoIds |-> "absent"]
    /\ agentLock' = "free"
    /\ state' = FALSE
    /\ cmdQueue' = 0
    /\ abortPermit' = FALSE
    /\ permitRun' = -1
    /\ evq' = <<>>
    /\ chat' = <<>>
    /\ ncalls' = 0
    /\ ci' = 0
    /\ perm' = "none"
    /\ permId' = <<0, 0, 0>>
    /\ popup' = "None"
    /\ slot' = "none"
    /\ effects' = {}
    /\ granted' = {}
    /\ published' = <<>>
    /\ rlEvents' = 0
    /\ outcome' = "none"
    /\ runNo' = 0
    /\ turnNo' = 0
    /\ retries' = 0
    /\ inRun' = 0
    /\ prompts' = 0
    /\ calls' = 0
    /\ cancelInTool' = FALSE

\* msg_rx.try_recv() in the loop of tui::run.
FgRecvEvent ==
    /\ fpc = "loop"
    /\ evq # <<>>
    /\ evq' = Tail(evq)
    /\ CASE Head(evq) = "Permission" ->
              /\ popup' = "Confirm"
              /\ slot' = "some"
              /\ UNCHANGED perm
         [] Head(evq) = "Timeout" ->
              /\ popup' = "Notification"
              /\ slot' = "none"
              /\ perm' = IF slot = "some" /\ perm = "pending" THEN "dropped" ELSE perm
         [] OTHER -> UNCHANGED <<popup, slot, perm>>
    /\ UNCHANGED <<agentVars, agentLock, state, cmdQueue, abortPermit, permitRun, wpc, chat,
                   callVars, permId, granted, fpc, prompts, effects, published,
                   outcome, runNo, turnNo, calls, retries, rlEvents, inRun, cancelInTool>>
    /\ UNCHANGED <<editVars, saved>>

\* Enter in the prompt: ignored while is_running(), else add_message follows.
KeyEnter ==
    /\ fpc = "loop"
    /\ popup = "None"
    /\ prompts < MaxRuns
    /\ ~IsRunning
    /\ fpc' = "add_message"
    /\ UNCHANGED <<agentVars, agentLock, state, cmdQueue, abortPermit, permitRun, evq, wpc,
                   chat, callVars, permVars, popup, slot, prompts, effects,
                   published, outcome, runNo, turnNo, calls, retries, rlEvents, inRun, cancelInTool>>
    /\ UNCHANGED <<editVars, saved>>

\* The agent lock taken without waiting for its holder.
AgentLockIgnored == TRUE

\* The foreground can take the agent lock.
AgentLockFree == agentLock = "free"

\* AgentRunner::add_message: lock the agent, append the message.
FgAddMessage ==
    /\ fpc = "add_message"
    /\ AgentLockFree
    /\ agentChat' = Append(agentChat, UserMsg(prompts + 1))
    /\ prompts' = prompts + 1
    /\ fpc' = "start_cycle"
    /\ UNCHANGED <<running, todo, agentLock, state, cmdQueue, abortPermit, permitRun, evq, wpc,
                   chat, callVars, permVars, popup, slot, effects, published,
                   outcome, runNo, turnNo, calls, retries, rlEvents, inRun, cancelInTool>>
    /\ UNCHANGED <<editVars, saved>>

\* start_cycle without its guard.
StartCycleAdmitsAll == FALSE

\* The guard of AgentRunner::start_cycle.
StartCycleRejects == IsRunning

\* AgentRunner::start_cycle: Err(AlreadyRunning) if is_running(), else send Run.
FgStartCycle ==
    /\ fpc = "start_cycle"
    /\ IF StartCycleRejects
       THEN /\ fpc' = "failed"
            /\ UNCHANGED cmdQueue
       ELSE /\ cmdQueue' = cmdQueue + 1
            /\ fpc' = "loop"
    /\ UNCHANGED <<agentVars, agentLock, state, abortPermit, permitRun, evq, wpc, chat,
                   callVars, permVars, popup, slot, prompts, effects,
                   published, outcome, runNo, turnNo, calls, retries, rlEvents,
                   inRun, cancelInTool>>
    /\ UNCHANGED <<editVars, saved>>

\* The error of start_cycle leaves handle_input and tui::run with `?`.
FgErrorExit ==
    /\ fpc = "failed"
    /\ Teardown
    /\ UNCHANGED <<editVars, saved>>

\* ctrl+n in the prompt: ignored while is_running(), else clear follows.
KeyCtrlN ==
    /\ fpc = "loop"
    /\ popup = "None"
    /\ ~IsRunning
    /\ fpc' = "clear"
    /\ UNCHANGED <<agentVars, agentLock, state, cmdQueue, abortPermit, permitRun, evq, wpc,
                   chat, callVars, permVars, popup, slot, prompts, effects,
                   published, outcome, runNo, turnNo, calls, retries, rlEvents, inRun, cancelInTool>>
    /\ UNCHANGED <<editVars, saved>>

\* The models of the configuration.
Models == {"model_a", "model_b"}

\* The agent behind the lock, with model m: the messages and the tools of its
\* chat request, its model, its running flag and the ledger of its context.
AgentOf(m) ==
    [messages |-> agentChat, tools |-> Registered, model |-> m,
     running |-> running, todo |-> todo]

\* A clear that starts from a new chat request.
ClearResetsRequest(agent) ==
    [agent EXCEPT !.messages = <<SystemMsg>>, !.tools = {}]

\* The body of AgentRunner::clear on the locked agent: chat.messages.clear(),
\* then add_system_msg.
Clear(agent) ==
    [agent EXCEPT !.messages = Append(<<>>, SystemMsg)]

\* AgentRunner::clear: lock the agent, clear the messages, add the system prompt.
FgClear ==
    /\ fpc = "clear"
    /\ AgentLockFree
    /\ \E m \in Models : agentChat' = Clear(AgentOf(m)).messages
    /\ fpc' = "loop"
    /\ UNCHANGED <<running, todo, agentLock, state, cmdQueue, abortPermit, permitRun, evq, wpc,
                   chat, callVars, permVars, popup, slot, prompts, effects,
                   published, outcome, runNo, turnNo, calls, retries, rlEvents, inRun, cancelInTool>>
    /\ UNCHANGED <<editVars, saved>>

\* ctrl+s in the prompt: cancel().
KeyCtrlS ==
    /\ fpc = "loop"
    /\ popup = "None"
    /\ Cancel
    /\ UNCHANGED <<agentVars, agentLock, state, cmdQueue, evq, wpc, chat, callVars,
                   permVars, fgVars, effects, published, outcome, runNo, turnNo, calls,
                   retries, rlEvents, inRun>>
    /\ UNCHANGED <<editVars, saved>>

\* ctrl+k and ctrl+t in the prompt open the model selector and the todo list.
KeyOpenPopup(p) ==
    /\ fpc = "loop"
    /\ popup = "None"
    /\ popup' = p
    /\ UNCHANGED <<agentVars, agentLock, state, cmdQueue, abortPermit, permitRun, evq, wpc,
                   chat, callVars, permVars, fpc, slot, prompts, effects, published,
                   outcome, runNo, turnNo, calls, retries, rlEvents, inRun, cancelInTool>>
    /\ UNCHANGED <<editVars, saved>>

\* Esc in the model selector or the todo list; the Notification popup expires
\* in render.
ClosePopup ==
    /\ fpc = "loop"
    /\ popup \in {"ModelSelect", "TodoList", "Notification"}
    /\ popup' = "None"
    /\ UNCHANGED <<agentVars, agentLock, state, cmdQueue, abortPermit, permitRun, evq, wpc,
                   chat, callVars, permVars, fpc, slot, prompts, effects, published,
                   outcome, runNo, turnNo, calls, retries, rlEvents, inRun, cancelInTool>>
    /\ UNCHANGED <<editVars, saved>>

\* Enter in the model selector: cancel(), then the agent lock is awaited.
KeyModelEnter ==
    /\ fpc = "loop"
    /\ popup = "ModelSelect"
    /\ Cancel
    /\ fpc' = "set_model"
    /\ UNCHANGED <<agentVars, agentLock, state, cmdQueue, evq, wpc, chat, callVars,
                   permVars, popup, slot, prompts, effects, published, outcome,
                   runNo, turnNo, calls, retries, rlEvents, inRun>>
    /\ UNCHANGED <<editVars, saved>>

\* The model selector got the agent lock: the model is set, the popup closes.
FgSetModel ==
    /\ fpc = "set_model"
    /\ AgentLockFree
    /\ popup' = "None"
    /\ fpc' = "loop"
    /\ UNCHANGED <<agentVars, agentLock, state, cmdQueue, abortPermit, permitRun, evq, wpc,
                   chat, callVars, permVars, slot, prompts, effects, published,
                   outcome, runNo, turnNo, calls, retries, rlEvents, inRun, cancelInTool>>
    /\ UNCHANGED <<editVars, saved>>

\* A toggle that puts an open item in progress.
ToggleStatusKeepsOpen(st) == IF st = "completed" THEN "pending" ELSE "in_progress"

\* Enter in the todo list toggles the selected item.
ToggleStatus(st) == IF st = "completed" THEN "pending" ELSE "completed"

KeyTodoEnter(i) ==
    /\ fpc = "loop"
    /\ popup = "TodoList"
    /\ todo[i] \in Status
    /\ todo' = [todo EXCEPT ![i] = ToggleStatus(todo[i])]
    /\ UNCHANGED <<agentChat, running, agentLock, state, cmdQueue, abortPermit, permitRun, evq,
                   wpc, chat, callVars, permVars, fgVars, effects, published,
                   outcome, runNo, turnNo, calls, retries, rlEvents, inRun, cancelInTool>>
    /\ UNCHANGED <<editVars, saved>>

\* Backspace in the todo list removes the selected item.
KeyTodoBackspace(i) ==
    /\ fpc = "loop"
    /\ popup = "TodoList"
    /\ todo[i] \in Status
    /\ todo' = [todo EXCEPT ![i] = "absent"]
    /\ UNCHANGED <<agentChat, running, agentLock, state, cmdQueue, abortPermit, permitRun, evq,
                   wpc, chat, callVars, permVars, fgVars, effects, published,
                   outcome, runNo, turnNo, calls, retries, rlEvents, inRun, cancelInTool>>
    /\ UNCHANGED <<editVars, saved>>

\* A Confirm popup that sends a reply at every press of 'a' or 'd'.
KeyConfirmResends(reply) ==
    /\ fpc = "loop"
    /\ popup = "Confirm"
    /\ perm # "none"
    /\ slot' = "none"
    /\ perm' = IF reply THEN "true" ELSE "false"
    /\ granted' = IF reply THEN granted \cup {permId} ELSE granted
    /\ UNCHANGED <<agentVars, agentLock, state, cmdQueue, abortPermit, permitRun, evq, wpc,
                   chat, callVars, permId, fpc, popup, prompts, effects, published,
                   outcome, runNo, turnNo, calls, retries, rlEvents, inRun, cancelInTool>>
    /\ UNCHANGED <<editVars, saved>>

\* 'a' (reply TRUE) or 'd' (reply FALSE) in the Confirm popup:
\* req.respond.take() sends once, later presses find None.
KeyConfirm(reply) ==
    /\ fpc = "loop"
    /\ popup = "Confirm"
    /\ slot = "some"
    /\ slot' = "none"
    /\ perm' = IF reply THEN "true" ELSE "false"
    /\ granted' = IF reply THEN granted \cup {permId} ELSE granted
    /\ UNCHANGED <<agentVars, agentLock, state, cmdQueue, abortPermit, permitRun, evq, wpc,
                   chat, callVars, permId, fpc, popup, prompts, effects, published,
                   outcome, runNo, turnNo, calls, retries, rlEvents, inRun, cancelInTool>>
    /\ UNCHANGED <<editVars, saved>>

\* ctrl+c in any popup: cancel(), then save() awaits the agent lock.
KeyCtrlC ==
    /\ fpc = "loop"
    /\ Cancel
    /\ fpc' = "save"
    /\ UNCHANGED <<agentVars, agentLock, state, cmdQueue, evq, wpc, chat, callVars,
                   permVars, popup, slot, prompts, effects, published, outcome,
                   runNo, turnNo, calls, retries, rlEvents, inRun>>
    /\ UNCHANGED <<editVars, saved>>

\* Option<f64>: None and Some(x).
None == [some |-> FALSE, v |-> 0]

Some(x) == [some |-> TRUE, v |-> x]

\* What save() can find in the fields no step of the run depends on (the
\* model of the agent, token_cost, money_cost and the lines of the textarea):
\* either what SessionState::new constructs, or the values after a change of
\* the model, a response with a cost and some typing.
SessionFields ==
    {[model |-> "model_a", token_cost |-> 0, money_cost |-> None, lines |-> <<"">>],
     [model |-> "model_b", token_cost |-> 7, money_cost |-> Some(3),
      lines |-> <<"fix", "it">>]}

\* The session save() reads: the agent under its lock and the fields f.
Session(f) ==
    [agentChat |-> agentChat, todo |-> todo, model |-> f.model,
     token_cost |-> f.token_cost, money_cost |-> f.money_cost, lines |-> f.lines]

\* serde_json::to_string on SessionSaveState: a message becomes an object
\* whose options are null or the cache control, the ledger an object with one
\* member per entry, an absent cost null.
ToJson(st) ==
    [input |-> st.input,
     chat |-> [i \in 1..Len(st.chat) |->
                 [role |-> st.chat[i].k,
                  content |-> [id |-> st.chat[i].id, txt |-> st.chat[i].txt],
                  options |-> IF st.chat[i].cache THEN "ephemeral" ELSE "null"]],
     todo |-> {<<i, st.todo[i]>> : i \in {j \in DOMAIN st.todo : st.todo[j] # "absent"}},
     model |-> st.model,
     token_cost |-> st.token_cost,
     money_cost |-> IF st.money_cost.some THEN [t |-> "num", v |-> st.money_cost.v]
                    ELSE [t |-> "null", v |-> 0]]

\* serde_json::from_str into SessionSaveState.
FromJson(j) ==
    [input |-> j.input,
     chat |-> [i \in 1..Len(j.chat) |->
                 [k |-> j.chat[i].role, id |-> j.chat[i].content.id,
                  txt |-> j.chat[i].content.txt,
                  cache |-> j.chat[i].options = "ephemeral"]],
     todo |-> [i \in TodoIds |->
                 IF \E m \in j.todo : m[1] = i
                 THEN (CHOOSE m \in j.todo : m[1] = i)[2]
                 ELSE "absent"],
     model |-> j.model,
     token_cost |-> j.token_cost,
     money_cost |-> IF j.money_cost.t = "num" THEN Some(j.money_cost.v) ELSE None]

\* SessionState::save on session sess: the SessionSaveState, then its JSON text.
Save(sess) ==
    ToJson([input |-> sess.lines, chat |-> sess.agentChat, todo |-> sess.todo,
            model |-> sess.model, token_cost |-> sess.token_cost,
            money_cost |-> sess.money_cost])

\* TextArea::new(lines): an empty vector becomes one empty line.
TextAreaNew(lines) == IF lines = <<>> THEN <<"">> ELSE lines

\* A load that leaves the textarea as constructed.
LoadWithoutInput(text) ==
    LET st == FromJson(text)
    IN [agentChat |-> st.chat, todo |-> st.todo, model |-> st.model,
        token_cost |-> st.token_cost, money_cost |-> st.money_cost,
        lines |-> <<"">>]

\* SessionState::load on the text of the session file.
Load(text) ==
    LET st == FromJson(text)
    IN [agentChat |-> st.chat, todo |-> st.todo, model |-> st.model,
        token_cost |-> st.token_cost, money_cost |-> st.money_cost,
        lines |-> TextAreaNew(st.input)]

\* save() got the agent lock and wrote the session: the loop breaks.
FgSaveExit ==
    /\ fpc = "save"
    /\ AgentLockFree
    /\ \E f \in SessionFields : saved' = <<Save(Session(f))>>
    /\ Teardown
    /\ UNCHANGED editVars

------------------------------------------------------------------------------

Next ==
    \/ WorkerRecv
    \/ WorkerLock
    \/ WorkerSetState
    \/ RunEntry
    \/ SelectPoll
    \/ AbortWins
    \/ TimeoutWins
    \/ \E r \in Responses : BackendOk(r.nt, r.n)
    \/ \E err \in BackendErrors : BackendRateLimited(err)
    \/ BackoffDone
    \/ \E err \in BackendErrors : BackendFatal(err)
    \/ WorkerRunDone
    \/ \E name \in ToolNames, shape \in ArgShapes, pre \in {"pass", "fail"} :
          ToolDispatch(name, shape, pre)
    \/ \E r \in {"ok", "error"} : ToolFinish(r)
    \/ \E io \in {"ok", "error"} : ToolResume(io)
    \/ \E i \in TodoIds, st \in Status : ToolTodoWrite(i, st)
    \/ FgRecvEvent
    \/ KeyEnter
    \/ FgAddMessage
    \/ FgStartCycle
    \/ FgErrorExit
    \/ KeyCtrlN
    \/ FgClear
    \/ KeyCtrlS
    \/ \E p \in {"ModelSelect", "TodoList"} : KeyOpenPopup(p)
    \/ ClosePopup
    \/ KeyModelEnter
    \/ FgSetModel
    \/ \E i \in TodoIds : KeyTodoEnter(i)
    \/ \E i \in TodoIds : KeyTodoBackspace(i)
    \/ \E reply \in BOOLEAN : KeyConfirm(reply)
    \/ KeyCtrlC
    \/ FgSaveExit

Spec == Init /\ [][Next]_vars

\* Agent::run entered with either value of Agent.running: the specification
\* under which the entry guard of Agent::run is exercised.
InitRunGuard ==
    /\ Idle
    /\ NoEdit
    /\ running \in BOOLEAN
    /\ todo = [i \in TodoIds |-> "absent"]

SpecRunGuard == InitRunGuard /\ [][Next]_vars

\* Statuses of the items of a saved session.
LoadedStatus == {"pending", "completed"}

\* The state after SessionState::load: the task ledger of the saved session
\* is restored into the agent.
InitLoaded ==
    /\ Idle
    /\ NoEdit
    /\ running = FALSE
    /\ todo \in [TodoIds -> LoadedStatus]

SpecLoaded == InitLoaded /\ [][Next]_vars

------------------------------------------------------------------------------
\* MultiEdit::run (src/src/tools/edit.rs), called as a unit: the tool is
\* defined but not registered, so that no run of the agent reaches it.

\* Strings are sequences of characters.
Chars == {"a", "b"}

\* The strings of at most n characters.
StringsUpTo(n) == UNION {[1..l -> Chars] : l \in 0..n}

\* An EditArg: old_string, new_string, replace_all.
EditArg == [old_string : StringsUpTo(MaxPatLen), new_string : StringsUpTo(MaxPatLen),
            replace_all : BOOLEAN]

\* The values of the `edits` argument.
EditLists == UNION {[1..l -> EditArg] : l \in 0..MaxEdits}

\* pat occurs in str at position i.
MatchAt(str, pat, i) ==
    /\ i + Len(pat) - 1 <= Len(str)
    /\ \A k \in 1..Len(pat) : str[i + k - 1] = pat[k]

\* str::contains
StrContains(str, pat) == \E i \in 1..(Len(str) + 1) : MatchAt(str, pat, i)

\* str::replacen(pat, to, 1): the first match is replaced.
ReplaceFirst(str, pat, to) ==
    IF ~StrContains(str, pat) THEN str
    ELSE LET i == CHOOSE j \in 1..(Len(str) + 1) :
                      /\ MatchAt(str, pat, j)
                      /\ \A l \in 1..(j - 1) : ~MatchAt(str, pat, l)
         IN SubSeq(str, 1, i - 1) \o to \o SubSeq(str, i + Len(pat), Len(str))

\* str::replace(pat, to): every match is replaced, from left to right and
\* without overlap; the empty pattern matches before every character and at
\* the end.
RECURSIVE ReplaceAll(_, _, _)
ReplaceAll(str, pat, to) ==
    IF pat = <<>>
    THEN IF str = <<>> THEN to
         ELSE to \o <<Head(str)>> \o ReplaceAll(Tail(str), pat, to)
    ELSE IF Len(str) < Len(pat) THEN str
    ELSE IF MatchAt(str, pat, 1)
         THEN to \o ReplaceAll(SubSeq(str, Len(pat) + 1, Len(str)), pat, to)
         ELSE <<Head(str)>> \o ReplaceAll(Tail(str), pat, to)

\* One iteration of the loop over the edits, on content c.
ApplyEdit(c, arg) ==
    IF arg.replace_all THEN ReplaceAll(c, arg.old_string, arg.new_string)
    ELSE ReplaceFirst(c, arg.old_string, arg.new_string)

\* MultiEdit::run is called with a file and a list of edits.
InitMultiEdit ==
    /\ Idle
    /\ running = FALSE
    /\ todo = [i \in TodoIds |-> "absent"]
    /\ file \in StringsUpTo(MaxFileLen)
    /\ editArgs \in EditLists
    /\ fileContent = <<>>
    /\ newContent = <<>>
    /\ ek = 0
    /\ mpc = "called"
    /\ writes = 0
    /\ editResult = "none"
    /\ message = <<>>
    /\ changed = FALSE

\* What the steps of MultiEdit::run leave alone.
runVars == <<agentChat, running, todo, agentLock, state, cmdQueue, abortPermit,
             permitRun, wpc, chat, ncalls, ci, permId, fpc, popup, slot, effects,
             granted, published, rlEvents, outcome, runNo, turnNo, retries, inRun,
             prompts, calls, cancelInTool, saved>>

\* read_to_string(&path): with io = "error" the `?` returns the error.
MultiEditRead(io) ==
    /\ mpc = "called"
    /\ IF io = "ok"
       THEN /\ fileContent' = file
            /\ newContent' = file
            /\ mpc' = "loop"
            /\ UNCHANGED editResult
       ELSE /\ editResult' = "error"
            /\ mpc' = "done"
            /\ UNCHANGED <<fileContent, newContent>>
    /\ UNCHANGED <<runVars, evq, perm, file, editArgs, ek, writes, message, changed>>

\* An iteration that applies its edit to the content of the file as read.
MultiEditStepOnOriginal ==
    /\ mpc = "loop"
    /\ ek < Len(editArgs)
    /\ IF ~StrContains(fileContent, editArgs[ek + 1].old_string)
       THEN /\ editResult' = "error"
            /\ mpc' = "done"
            /\ UNCHANGED <<newContent, ek>>
       ELSE /\ newContent' = ApplyEdit(fileContent, editArgs[ek + 1])
            /\ ek' = ek + 1
            /\ UNCHANGED <<mpc, editResult>>
    /\ UNCHANGED <<runVars, evq, perm, file, editArgs, fileContent, writes, message,
                   changed>>

\* One iteration of `for arg in edits.iter()`: Err if old_string is not in
\* new_content, else the replacement on new_content.
MultiEditStep ==
    /\ mpc = "loop"
    /\ ek < Len(editArgs)
    /\ IF ~StrContains(newContent, editArgs[ek + 1].old_string)
       THEN /\ editResult' = "error"
            /\ mpc' = "done"
            /\ UNCHANGED <<newContent, ek>>
       ELSE /\ newContent' = ApplyEdit(newContent, editArgs[ek + 1])
            /\ ek' = ek + 1
            /\ UNCHANGED <<mpc, editResult>>
    /\ UNCHANGED <<runVars, evq, perm, file, editArgs, fileContent, writes, message,
                   changed>>

\* DiffOptions::create_patch(old, new): the patch that turns old into new.
Patch(old, new) == <<[from |-> old, to |-> new]>>

\* After the loop: the patch of file_content and new_content,
\* PermissionRequest::new, send Permission, rx.await.
MultiEditAsk ==
    /\ mpc = "loop"
    /\ ek = Len(editArgs)
    /\ message' = Patch(fileContent, newContent)
    /\ perm' = "pending"
    /\ evq' = Append(evq, "Permission")
    /\ mpc' = "perm_wait"
    /\ UNCHANGED <<runVars, file, editArgs, fileContent, newContent, ek, writes,
                   editResult, changed>>

\* The foreground answers the request (reply "true" or "false") or drops it.
PermissionResolved(reply) ==
    /\ mpc \in {"perm_wait", "edit_wait"}
    /\ perm = "pending"
    /\ perm' = reply
    /\ UNCHANGED <<runVars, evq, editVars>>

\* rx.await resolves: `if !rx.await?` returns the error of a declined or
\* dropped request; after a true reply fs::write(path, new_content), Ok.
MultiEditResume ==
    /\ mpc = "perm_wait"
    /\ perm \in {"true", "false", "dropped"}
    /\ IF ReplyOutcome(perm).effect
       THEN /\ file' = newContent
            /\ writes' = writes + 1
       ELSE UNCHANGED <<file, writes>>
    /\ editResult' = ReplyOutcome(perm).txt
    /\ mpc' = "done"
    /\ UNCHANGED <<runVars, evq, perm, editArgs, fileContent, newContent, ek, message,
                   changed>>

NextMultiEdit ==
    \/ \E io \in {"ok", "error"} : MultiEditRead(io)
    \/ MultiEditStep
    \/ MultiEditAsk
    \/ \E reply \in {"true", "false", "dropped"} : PermissionResolved(reply)
    \/ MultiEditResume

SpecMultiEdit == InitMultiEdit /\ [][NextMultiEdit]_vars

------------------------------------------------------------------------------
\* Edit::run and MultiEdit::run (src/src/tools/edit.rs) on a file that other
\* processes write too.

\* Edit::run or MultiEdit::run is called: the arguments of edit are those of
\* one EditArg.
InitEditRace ==
    /\ Idle
    /\ running = FALSE
    /\ todo = [i \in TodoIds |-> "absent"]
    /\ file \in StringsUpTo(MaxFileLen)
    /\ \/ mpc = "called" /\ editArgs \in EditLists
       \/ mpc = "edit_called" /\ editArgs \in [1..1 -> EditArg]
    /\ fileContent = <<>>
    /\ newContent = <<>>
    /\ ek = 0
    /\ writes = 0
    /\ editResult = "none"
    /\ message = <<>>
    /\ changed = FALSE

\* Edit::run up to rx.await: read_to_string (fileContent is its old_content),
\* Err if old_string is not in it, else the replacement, the patch, the
\* request.
EditRun(io) ==
    /\ mpc = "edit_called"
    /\ IF io = "error" \/ ~StrContains(file, editArgs[1].old_string)
       THEN /\ editResult' = "error"
            /\ mpc' = "edit_done"
            /\ UNCHANGED <<fileContent, newContent, message, perm, evq>>
       ELSE /\ fileContent' = file
            /\ newContent' = ApplyEdit(file, editArgs[1])
            /\ message' = Patch(file, ApplyEdit(file, editArgs[1]))
            /\ perm' = "pending"
            /\ evq' = Append(evq, "Permission")
            /\ mpc' = "edit_wait"
            /\ UNCHANGED editResult
    /\ UNCHANGED <<runVars, file, editArgs, ek, writes, changed>>

\* An edit that reads the file again after the reply and writes the
\* replacement made on what it then finds.
EditResumeRecomputes ==
    /\ mpc = "edit_wait"
    /\ perm \in {"true", "false", "dropped"}
    /\ IF ReplyOutcome(perm).effect
       THEN /\ file' = ApplyEdit(file, editArgs[1])
            /\ writes' = writes + 1
       ELSE UNCHANGED <<file, writes>>
    /\ editResult' = ReplyOutcome(perm).txt
    /\ mpc' = "edit_done"
    /\ UNCHANGED <<runVars, evq, perm, editArgs, fileContent, newContent, ek, message,
                   changed>>

\* rx.await of Edit::run resolves: `if !rx.await?` returns the error of a
\* declined or dropped request; after a true reply fs::write(path, new_content).
EditResume ==
    /\ mpc = "edit_wait"
    /\ perm \in {"true", "false", "dropped"}
    /\ IF ReplyOutcome(perm).effect
       THEN /\ file' = newContent
            /\ writes' = writes + 1
       ELSE UNCHANGED <<file, writes>>
    /\ editResult' = ReplyOutcome(perm).txt
    /\ mpc' = "edit_done"
    /\ UNCHANGED <<runVars, evq, perm, editArgs, fileContent, newContent, ek, message,
                   changed>>

\* Another process writes content c to the file while the tool waits for the
\* reply to its request.
OtherWrite(c) ==
    /\ mpc \in {"perm_wait", "edit_wait"}
    /\ c # file
    /\ file' = c
    /\ changed' = TRUE
    /\ UNCHANGED <<runVars, evq, perm, editArgs, fileContent, newContent, ek, mpc,
                   writes, editResult, message>>

NextEditRace ==
    \/ NextMultiEdit
    \/ \E io \in {"ok", "error"} : EditRun(io)
    \/ EditResume
    \/ \E c \in StringsUpTo(MaxFileLen) : OtherWrite(c)

SpecEditRace == InitEditRace /\ [][NextEditRace]_vars

------------------------------------------------------------------------------
\* Properties.

\* A message the run loop appended (not a prompt of the user, not the system
\* prompt).
WorkerMsg(m) ==
    m.k \in {"assistant", "tool_calls", "tool_result"} \/ m.txt = "continue"

\* The run a message of the run loop belongs to.
RunOf(m) == m.id[1]

\* The messages of the run loop in msgs are grouped by run, in the order of
\* the runs.
RunsContiguous(msgs) ==
    \A i, j \in 1..Len(msgs) :
        (i < j /\ WorkerMsg(msgs[i]) /\ WorkerMsg(msgs[j]))
            => RunOf(msgs[i]) <= RunOf(msgs[j])

\* C1: at most one execution of Agent::run is in progress at any time; while
\* one is in progress nothing but that run changes the messages of the
\* Conversation, and the messages of the runs are never interleaved in it.
C1_SingleFlight ==
    [][/\ inRun' <= 1
       /\ (inRun = 1 /\ inRun' = 1) => Strip(agentChat') = Strip(agentChat)
       /\ RunsContiguous(agentChat')
       /\ RunsContiguous(chat')]_vars

\* C1 witness: a second run is in progress and has appended to a history that
\* holds messages of the first run.
C1_Witness ==
    /\ inRun = 1
    /\ runNo = 2
    /\ \E i, j \in 1..Len(chat) :
          /\ i < j
          /\ WorkerMsg(chat[i]) /\ RunOf(chat[i]) = 1
          /\ WorkerMsg(chat[j]) /\ RunOf(chat[j]) = 2

\* C2: start_cycle called while is_running() is true returns AlreadyRunning,
\* enqueues no Run command and leaves the agent as it is; Agent::run entered
\* while Agent.running is true returns AlreadyRunning and changes no field of
\* the agent.
C2_AlreadyRunning ==
    [][/\ (fpc = "start_cycle" /\ fpc' # fpc /\ IsRunning)
            => /\ fpc' = "failed"
               /\ UNCHANGED <<cmdQueue, agentChat, running, todo>>
       /\ (wpc = "run" /\ wpc' \notin {wpc, "killed"} /\ running)
            => /\ outcome' = "already_running"
               /\ wpc' = "ret"
               /\ UNCHANGED <<agentChat, running, todo, inRun, runNo>>]_vars

\* C2 witness: start_cycle has been rejected, and the latest Agent::run was
\* refused by its entry guard.
C2_Witness == fpc = "failed" /\ outcome = "already_running"

\* The tool results that follow the batch at position b of msgs.
ResultsAfter(msgs, b) ==
    {j \in (b + 1)..Len(msgs) :
        /\ j - b <= msgs[b].id[3]
        /\ \A k \in (b + 1)..j : msgs[k].k = "tool_result"}

\* Every batch of tool calls in msgs is followed by one result per call, the
\* i-th result carrying the identifier of the i-th call.
BatchesComplete(msgs) ==
    \A b \in 1..Len(msgs) :
        msgs[b].k = "tool_calls" =>
            /\ Cardinality(ResultsAfter(msgs, b)) = msgs[b].id[3]
            /\ \A j \in ResultsAfter(msgs, b) :
                  msgs[j].id = <<msgs[b].id[1], msgs[b].id[2], j - b>>

\* The run loop is inside the resolution of a batch.
Resolving == wpc \in {"tool", "tool_exec", "perm_wait"}

\* C3: once the resolution of the tool calls of a turn is over, the local
\* conversation of the run holds one result per call of the turn, in the
\* order of the calls.
C3_ResultPerCall == (inRun = 0 \/ ~Resolving) => BatchesComplete(chat)

\* C4: a reply of false makes the tool return the declined error, which
\* becomes the result of the call; no side effect is performed and the loop
\* goes on with the next call or the next turn.
C4_Declined ==
    [][(wpc = "perm_wait" /\ perm = "false" /\ wpc' \notin {wpc, "killed"})
        => /\ chat' = Append(chat, ToolResultMsg(CallId, "declined"))
           /\ effects' = effects
           /\ wpc' = IF ci < ncalls THEN "tool" ELSE "select"
           /\ outcome' = outcome /\ running' = running]_vars

\* C4 witness: a declined call has its result in the history, no side effect
\* was performed for it, and the loop has issued the next backend call.
C4_Witness ==
    /\ wpc = "await"
    /\ chat # <<>>
    /\ chat[Len(chat)].k = "tool_result"
    /\ chat[Len(chat)].txt = "declined"
    /\ chat[Len(chat)].id \notin effects

\* C5: when the foreground leaves on ctrl+c while a permission request is
\* unanswered, the wait of the tool does not block for ever: some step of
\* the session is still possible.
C5_ExitEndsPermissionWait ==
    (fpc = "save" /\ wpc = "perm_wait" /\ perm = "pending") => ENABLED Next

\* C6: every side effect is performed for the call the latest
\* PermissionRequest was published for, after a reply of true to it.
C6_EffectNeedsApproval ==
    [][\A id \in effects' \ effects :
          /\ id = CallId
          /\ id = permId
          /\ perm = "true"
          /\ id \in granted]_vars

\* C6 witness: a side effect has been performed.
C6_Witness == effects # {} /\ effects \subseteq granted

\* The ledger holds an item that is pending or in progress.
OpenItems == {i \in TodoIds : todo[i] \in {"pending", "in_progress"}}

\* The continuation messages of msgs.
Continuations(msgs) == {i \in 1..Len(msgs) : msgs[i].txt = "continue"}

\* C7: after a response without tool calls, an open ledger item makes the
\* loop append exactly one continuation message and go back to the race
\* point; without open item the loop stops with the texts of the response
\* as the last messages.
C7_TerminationCheck ==
    [][(turnNo' = turnNo + 1 /\ ncalls' = 0)
        => IF OpenItems # {}
           THEN /\ Cardinality(Continuations(chat')) =
                       Cardinality(Continuations(chat)) + 1
                /\ chat'[Len(chat')] = ContinueMsg(runNo, turnNo')
                /\ Len(chat') <= Len(chat) + 2
                /\ wpc' = "select"
                /\ running' = running
           ELSE /\ Continuations(chat') = Continuations(chat)
                /\ wpc' = "ret"
                /\ outcome' = "stop"
                /\ agentChat' = chat']_vars

\* C7 witness: a continuation message is in the history and the turn that
\* followed it has appended its response.
C7_Witness ==
    \E i, j \in 1..Len(chat) :
        /\ i < j
        /\ chat[i].txt = "continue"
        /\ chat[j].k = "assistant"
        /\ chat[j].id[2] = chat[i].id[2] + 1

\* The assistant messages of msgs.
Assistants(msgs) == {i \in 1..Len(msgs) : msgs[i].k = "assistant"}

\* C8: a rate-limit failure sends exactly one RateLimit event, appends
\* nothing and ends no run; after the backoff the loop is back at the race
\* point of the same turn; the session has sent one event per failure.
C8_RateLimitRetry ==
    [][/\ (retries' = retries + 1)
            => /\ rlEvents' = rlEvents + 1
               /\ UNCHANGED <<chat, agentChat, turnNo, inRun, outcome>>
               /\ wpc' = "backoff"
       /\ (wpc = "backoff" /\ wpc' \notin {wpc, "killed"})
            => /\ wpc' = "select"
               /\ UNCHANGED <<chat, agentChat, turnNo, inRun, outcome, rlEvents>>
       /\ rlEvents' = retries']_vars

\* C8 witness: two rate-limit failures, then a response whose assistant
\* message is in the history once.
C8_Witness ==
    /\ runNo = 1
    /\ retries = 2
    /\ rlEvents = 2
    /\ turnNo = 1
    /\ Cardinality(Assistants(chat)) = 1
    /\ outcome = "stop"

\* C9: after a fatal backend error the Conversation holds every message the
\* run appended before the failing turn.
C9_FatalKeepsHistory ==
    (outcome = "fatal" /\ wpc = "ret") => Strip(agentChat) = Strip(chat)

\* C10: a tool call during which cancel() was called is not blocked for
\* ever: while it executes, some step of the session is still possible.
C10_CancelledToolCompletes ==
    (cancelInTool /\ wpc \in {"tool_exec", "perm_wait"}) => ENABLED Next

\* C11: cancel() called while no run is in progress or requested has no
\* effect on a later run: a run at its race point never finds a permit that
\* such a cancel() stored.
C11_IdleCancelNoOp ==
    (wpc \in {"select", "await"} /\ abortPermit) => permitRun # 0

\* The worker is between the receipt of a Run command and the end of its run.
WorkerBusy == wpc \notin {"recv", "panicked", "killed"}

\* C12: at most one accepted run request is waiting in the command channel
\* or being executed.
C12_OneRequestInFlight ==
    cmdQueue + (IF WorkerBusy THEN 1 ELSE 0) <= 1

\* The outcomes of a run the session goes on after.
TerminalOutcomes == {"stop", "timeout", "abort", "fatal"}

\* C13: when the worker is done with a run that ended with a stop, a timeout,
\* an abort or a fatal error, every tool-call batch of the Conversation has
\* its results, both running flags are false and the agent lock is free, so
\* that start_cycle admits the next request; the next run starts from the
\* Conversation as it then is.
C13_TerminalOutcome ==
    [][/\ (wpc = "ret" /\ wpc' = "recv" /\ outcome \in TerminalOutcomes)
            => /\ BatchesComplete(agentChat')
               /\ ~running'
               /\ ~state'
               /\ agentLock' = "free"
       /\ (wpc = "run" /\ wpc' = "select")
            => /\ chat' = agentChat
               /\ BatchesComplete(chat')]_vars

\* C13 witness: a second run has started from a Conversation that holds a
\* tool-call batch of the first run.
C13_Witness ==
    /\ runNo = 2
    /\ wpc = "select"
    /\ \E i \in 1..Len(chat) : chat[i].k = "tool_calls" /\ chat[i].id[1] = 1

\* The texts of the results of a handler that returned an error.
ErrorResults == {"error", "declined", "closed"}

\* C14: the error a handler returns becomes the result of its call and ends
\* nothing: the next call of the batch is dispatched, or the loop goes to the
\* race point of the next turn, with the run still in progress.
C14_ToolErrorIsLocal ==
    [][(/\ Resolving
        /\ Len(chat') = Len(chat) + 1
        /\ chat'[Len(chat')].txt \in ErrorResults)
        => /\ chat' = Append(chat, ToolResultMsg(CallId, chat'[Len(chat')].txt))
           /\ wpc' = IF ci < ncalls THEN "tool" ELSE "select"
           /\ ci' = IF ci < ncalls THEN ci + 1 ELSE ci
           /\ inRun = 1 /\ inRun' = 1
           /\ UNCHANGED <<outcome, agentChat, agentLock, state>>]_vars

\* C14 witness: the first call of a batch of two ended with an error, the
\* second call has its result too, and the loop has issued the next backend
\* call.
C14_Witness ==
    /\ wpc = "await"
    /\ Len(chat) >= 2
    /\ chat[Len(chat)].k = "tool_result"
    /\ chat[Len(chat)].id[3] = 2
    /\ chat[Len(chat) - 1].k = "tool_result"
    /\ chat[Len(chat) - 1].txt \in ErrorResults

\* C15: a tool call whose name is not registered never crashes the run.
C15_UnknownToolGivesError == outcome # "panic_lookup"

\* C16: a tool call whose argument payload cannot be parsed never crashes
\* the run.
C16_BadArgumentsGiveError == outcome # "panic_args"

\* C17: when the timeout wins the race of a turn, exactly one Timeout event
\* is sent and no other, the run ends, and the Conversation becomes the local
\* chat as the earlier turns left it.
C17_Timeout ==
    [][(wpc = "await" /\ outcome' = "timeout" /\ wpc' = "ret")
        => /\ evq' = Append(evq, "Timeout")
           /\ UNCHANGED <<published, rlEvents, turnNo, chat>>
           /\ agentChat' = chat
           /\ ~running'
           /\ inRun' = 0]_vars

\* C17 witness: a run has ended by the timeout and the Conversation holds the
\* tool result of an earlier turn of that run.
C17_Witness ==
    /\ outcome = "timeout"
    /\ wpc = "ret"
    /\ agentChat # <<>>
    /\ agentChat[Len(agentChat)].k = "tool_result"
    /\ agentChat[Len(agentChat)].id[1] = runNo

\* C18: when the abort wins the race of a turn the run ends at once: no
\* event is sent, no turn is completed, and the Conversation becomes the
\* local chat as the earlier turns left it.
C18_Abort ==
    [][(wpc \in {"select", "await"} /\ outcome' = "abort" /\ wpc' = "ret")
        => /\ UNCHANGED <<evq, published, rlEvents, turnNo, chat>>
           /\ agentChat' = chat
           /\ ~running'
           /\ inRun' = 0]_vars

\* C18 witness: a run has been aborted after a completed turn.
C18_Witness ==
    /\ outcome = "abort"
    /\ wpc = "ret"
    /\ agentChat # <<>>
    /\ agentChat[Len(agentChat)].k = "tool_result"
    /\ agentChat[Len(agentChat)].id[1] = runNo

\* The textual description of an error holds a rate-limit signature.
HasSignature(err) ==
    \E i \in 1..Len(err.text) : err.text[i] \in {"rate_limit", "rate limit"}

\* The system message the worker sends for a run that returned an error.
ErrorMsg == Msg("system", <<runNo, turnNo, 0>>, outcome)

\* C19 as stated: a backend failure is retried exactly if its text holds a
\* rate-limit signature, whatever its variant.
C19_RetryIffSignature ==
    [][\A err \in BackendErrors :
          /\ HasSignature(err) => ~BackendFatal(err)
          /\ ~HasSignature(err) => ~BackendRateLimited(err)]_vars

\* C19: a backend failure is retried exactly if it is a WebModelCall error
\* whose text holds a rate-limit signature; every other failure ends the run
\* without a further turn, and the worker sends it to the foreground as a
\* system message.
C19_RetryIffWebSignature ==
    [][/\ \A err \in BackendErrors :
             /\ (err.web /\ HasSignature(err)) => ~BackendFatal(err)
             /\ ~(err.web /\ HasSignature(err)) => ~BackendRateLimited(err)
       /\ (wpc = "await" /\ outcome' = "fatal")
             => /\ wpc' = "ret"
                /\ inRun' = 0
                /\ UNCHANGED <<turnNo, retries, rlEvents>>
       /\ (wpc = "ret" /\ outcome = "fatal" /\ wpc' = "recv")
             => published' = Append(published, ErrorMsg)]_vars

\* C19 witness: after a retried failure the run has ended with a fatal one,
\* which the worker has sent to the foreground.
C19_Witness ==
    /\ outcome = "fatal"
    /\ wpc = "recv"
    /\ retries >= 1
    /\ published # <<>>
    /\ published[Len(published)] = ErrorMsg

\* C20: the retries of one turn are bounded below the budget of the session:
\* a run is never back at the race point of its first turn with the whole
\* budget spent on rate-limit failures.
C20_RetryBounded ==
    ~(runNo = 1 /\ turnNo = 0 /\ wpc = "select" /\ retries = MaxSteps)

\* Every tool result of msgs answers a call of the batch that precedes it.
ResultsOwned(msgs) ==
    \A j \in 1..Len(msgs) :
        msgs[j].k = "tool_result" =>
            \E b \in 1..(j - 1) :
                /\ msgs[b].k = "tool_calls"
                /\ j \in ResultsAfter(msgs, b)
                /\ msgs[j].id = <<msgs[b].id[1], msgs[b].id[2], j - b>>

\* C21: the conversation of every backend call in flight holds, after each
\* tool-call batch, the results of its calls in the order of the calls, with
\* no other message in between, and no tool result besides these.
C21_BatchesAnswered ==
    wpc = "await" => (BatchesComplete(chat) /\ ResultsOwned(chat))

\* C21 witness: a backend call is in flight with a conversation that holds a
\* batch of two calls, the second of which failed.
C21_Witness ==
    /\ wpc = "await"
    /\ \E b \in 1..Len(chat) : chat[b].k = "tool_calls" /\ chat[b].id[3] = 2
    /\ chat[Len(chat)].k = "tool_result"
    /\ chat[Len(chat)].txt \in ErrorResults

\* C22: while the handler of call ci is about to start or executes, the local
\* chat ends with the batch and the results of the calls before ci, in their
\* order; the one request for permission that can be unanswered is the one of
\* call ci.
C22_Sequential ==
    (Resolving /\ inRun = 1)
        => /\ Len(chat) >= ci
           /\ chat[Len(chat) - (ci - 1)] = ToolCallsMsg(runNo, turnNo, ncalls)
           /\ \A i \in 1..(ci - 1) :
                 /\ chat[Len(chat) - (ci - 1) + i].k = "tool_result"
                 /\ chat[Len(chat) - (ci - 1) + i].id = <<runNo, turnNo, i>>
           /\ (wpc = "perm_wait" => permId = CallId)

\* C22 witness: the handler of the second call of a batch executes, and the
\* result of the first call is the last message of the local chat.
C22_Witness ==
    /\ wpc \in {"tool_exec", "perm_wait"}
    /\ ci = 2
    /\ chat[Len(chat)].k = "tool_result"
    /\ chat[Len(chat)].id = <<runNo, turnNo, 1>>

\* The ledgers the ledger queries are checked on: every ledger of LedgerSize
\* keys, each with an item in some status or without entry.
Ledgers == [1..LedgerSize -> Status \cup {"absent"}]

\* The two queries on ledger t: has_open_todos is true exactly if some item is
\* pending or in progress, get_open_todos returns exactly the pending and
\* in-progress items, and a ledger without items has no open work.
QueriesAgree(t) ==
    LET open == {i \in DOMAIN t : t[i] = "pending" \/ t[i] = "in_progress"}
    IN /\ HasOpenTodos(t) <=> open # {}
       /\ GetOpenTodos(t) = open
       /\ (\A i \in DOMAIN t : t[i] = "absent")
             => (~HasOpenTodos(t) /\ GetOpenTodos(t) = {})

\* The queries on every ledger of Ledgers.
QueriesAgreeOnLedgers == \A t \in Ledgers : QueriesAgree(t)

\* C24: has_open_todos and get_open_todos answer as specified on the ledger
\* of the session and on every ledger of Ledgers.
C24_OpenTodos == QueriesAgreeOnLedgers /\ QueriesAgree(todo)

\* C24 witness: the termination check has found open work in the ledger of
\* the session and the loop has appended the continuation; every item of the
\* ledger that is not open is completed.
C24_Witness ==
    /\ wpc = "select"
    /\ chat # <<>>
    /\ chat[Len(chat)].txt = "continue"
    /\ GetOpenTodos(todo) # {}
    /\ \A i \in TodoIds \ GetOpenTodos(todo) : todo[i] = "completed"

\* C25: while a run is in progress, and so holds the agent lock, is_running()
\* is true, and the call of start_cycle that asks it can complete whoever
\* holds the lock.
C25_IsRunningNeverWaits ==
    /\ inRun = 1 => (agentLock = "worker" /\ IsRunning)
    /\ fpc = "start_cycle" => ENABLED FgStartCycle

\* C25 witness: start_cycle is about to ask is_running() while a run that
\* holds the agent lock waits for a permission reply or sleeps in a backoff.
C25_Witness ==
    /\ fpc = "start_cycle"
    /\ wpc \in {"perm_wait", "backoff"}
    /\ agentLock = "worker"
    /\ IsRunning

\* The messages the run in progress has appended to its local chat, in order.
RunAppended == SelectSeq(chat, LAMBDA m : WorkerMsg(m) /\ RunOf(m) = runNo)

\* C26: the Message events a run in progress has sent are the messages it
\* has appended to the conversation, in the order in which it appended them.
C26_AppendedIsPublished == inRun = 1 => published = RunAppended

\* C27: a reply is sent only for a request that is unanswered and whose
\* sender is still in the popup, and it takes the sender out of the popup;
\* once a request is answered or dropped, what the waiting tool will observe
\* no longer changes until the tool has taken it.
C27_ReplyOnce ==
    [][/\ (perm' \in {"true", "false"} /\ perm' # perm)
            => /\ perm = "pending"
               /\ slot = "some"
               /\ slot' = "none"
       /\ (perm \in {"true", "false", "dropped"} /\ fpc' # "exited")
            => perm' \in {perm, "none"}
       /\ (perm \in {"true", "false", "dropped"} /\ perm' = "none")
            => /\ wpc = "perm_wait"
               /\ chat'[Len(chat')].id = permId
               /\ (chat'[Len(chat')].txt \in {"ok", "error"}) <=> (perm = "true")]_vars

\* C27 witness: the request of the Confirm popup has been answered, its
\* sender is taken, and the tool has not resumed yet: further presses of 'a'
\* or 'd' reach the popup.
C27_Witness ==
    /\ popup = "Confirm"
    /\ fpc = "loop"
    /\ slot = "none"
    /\ perm \in {"true", "false"}
    /\ wpc = "perm_wait"

\* C28: in the conversation of every backend call in flight, the first two
\* and the last two messages carry the cache hint and no other message does.
C28_CacheHints ==
    wpc = "await"
        => \A i \in 1..Len(chat) : chat[i].cache <=> (i <= 2 \/ i > Len(chat) - 2)

\* The step is the todo tool resolving the call of the run: it appends its
\* result to the local chat and leaves the foreground alone.
TodoToolStep ==
    /\ wpc = "tool"
    /\ chat' = Append(chat, ToolResultMsg(CallId, "ok"))
    /\ UNCHANGED fgVars

\* The step is a key of the user in the todo-list popup and leaves the run
\* alone.
TodoPopupStep ==
    /\ fpc = "loop"
    /\ popup = "TodoList"
    /\ UNCHANGED <<wpc, chat, agentChat, fpc, popup>>

RECURSIVE EditsApplied(_, _)
EditsApplied(c, es) ==
    IF es = <<>> THEN c
    ELSE ApplyEdit(EditsApplied(c, SubSeq(es, 1, Len(es) - 1)), es[Len(es)])

\* Every edit of es finds its old_string in the result of the edits before it.
AllFound(c, es) ==
    \A k \in 1..Len(es) :
        StrContains(EditsApplied(c, SubSeq(es, 1, k - 1)), es[k].old_string)

FgAwaitsLock == fpc \in {"add_message", "set_model", "save"}

\* C32: the foreground is never blocked on the agent lock while the run loop,
\* which holds that lock, waits for a permission reply that is not sent yet.
C32_NoLockDeadlock ==
    ~(FgAwaitsLock /\ agentLock = "worker" /\ wpc = "perm_wait" /\ perm = "pending")

\* C33: a run at its race point finds only the permit of a cancel() that was
\* called for this run: no permit of a cancel() called for an earlier run, or
\* after the last race point of one, is left for it.
C33_CancelStopsOwnRun ==
    (wpc \in {"select", "await"} /\ abortPermit) => permitRun = runNo

\* C34: Agent.running is true exactly while an execution of Agent::run is in
\* progress.
C34_RunningWhileInRun == running <=> inRun = 1

\* The Permission events of evs.
PermissionEvents(evs) == SelectSeq(evs, LAMBDA e : e = "Permission")

\* The requests the foreground has not answered: the Permission events it has
\* not received yet, and the request of the Confirm popup while its sender is
\* not taken.
Unanswered == Len(PermissionEvents(evq)) + (IF slot = "some" THEN 1 ELSE 0)

\* C35: at most one request is unanswered; a Permission event is sent only
\* when none is, and the Confirm popup takes a request only when the sender of
\* the one before is taken.
C35_OneUnanswered ==
    [][/\ Unanswered' <= 1
       /\ (Unanswered' = 1 /\ fpc' # "exited") => (perm' = "pending" /\ wpc' = "perm_wait")
       /\ Len(PermissionEvents(evq')) > Len(PermissionEvents(evq))
            => (Unanswered = 0 /\ perm # "pending")
       /\ (fpc' = "loop" /\ evq # <<>> /\ evq' = Tail(evq) /\ Head(evq) = "Permission")
            => (slot # "some" /\ slot' = "some" /\ perm = "pending")]_vars

\* C35 witness: the second call of a batch waits for the reply to its request,
\* which is in the Confirm popup; the request of the first call was granted.
C35_Witness ==
    /\ wpc = "perm_wait"
    /\ ci = 2
    /\ perm = "pending"
    /\ permId = CallId
    /\ slot = "some"
    /\ <<runNo, turnNo, 1>> \in granted

\* C36: once the request of the Confirm popup is answered the popup is left.
C36_AnsweredConfirmCloses ==
    ~(fpc = "loop" /\ popup = "Confirm" /\ slot = "none")

\* The prompts of the user that msgs holds, by their number.
PromptsOf(msgs) ==
    {msgs[i].id[1] : i \in {j \in 1..Len(msgs) : msgs[j].k = "user" /\ msgs[j].txt = "prompt"}}

\* add_message() appends its message to the Conversation while no run is in
\* progress, and no step but clear() and the end of the process takes a prompt
\* out of the Conversation: the write-back of a run never does.
AddedIsKept ==
    /\ (prompts' = prompts + 1 /\ fpc' # "exited")
          => /\ agentChat' = Append(agentChat, UserMsg(prompts'))
             /\ inRun = 0
             /\ agentLock = "free"
    /\ (fpc # "clear" /\ fpc' # "exited") => PromptsOf(agentChat) \subseteq PromptsOf(agentChat')

\* The first run of the session starts from a Conversation that holds every
\* message added before it.
FirstRunStartsFromAdded ==
    (wpc = "run" /\ wpc' = "select" /\ runNo = 0) => PromptsOf(chat') = 1..prompts

\* C38: a message added with add_message() is appended when no run is in
\* progress, is not overwritten by the write-back of a run, and is part of the
\* conversation the next run starts from.
C38_AddedNeverLost == [][AddedIsKept /\ FirstRunStartsFromAdded]_vars

\* C39: clear() leaves the Conversation with the system prompt as its one
\* message, and leaves the ledger, the model, the registered tools and both
\* running flags as they were.
C39_ClearFrame ==
    [][(fpc = "clear" /\ fpc' = "loop")
        => /\ agentChat' = <<SystemMsg>>
           /\ UNCHANGED <<todo, running, state>>
           /\ \A m \in Models :
                 /\ Clear(AgentOf(m)).messages = agentChat'
                 /\ Clear(AgentOf(m)).model = m
                 /\ Clear(AgentOf(m)).tools = Registered
                 /\ Clear(AgentOf(m)).running = running'
                 /\ Clear(AgentOf(m)).todo = todo']_vars

\* C39 witness: the session is idle after a run that stopped with an assistant
\* message in its conversation, the ledger holds an item, and the
\* Conversation has been cleared since.
C39_Witness ==
    /\ fpc = "loop"
    /\ wpc = "recv"
    /\ outcome = "stop"
    /\ ~running /\ ~state
    /\ \E i \in 1..Len(published) : published[i].k = "assistant"
    /\ agentChat = <<SystemMsg>>
    /\ \E i \in TodoIds : todo[i] \in Status

\* The tool waits for the reply to its request.
EditWaits == mpc \in {"perm_wait", "edit_wait"}

\* C37: the request of edit and of multi_edit shows the patch from the file
\* as read to the new content computed from it; neither changes while the
\* tool waits, and the write after a true reply writes exactly that new
\* content, whatever the file holds by then.
C37_WritesWhatWasShown ==
    [][/\ (~EditWaits /\ EditWaits')
            => /\ fileContent' = file
               /\ newContent' = EditsApplied(file, editArgs)
               /\ message' = Patch(fileContent', newContent')
       /\ EditWaits => UNCHANGED <<message, newContent, fileContent>>
       /\ (EditWaits /\ writes' # writes)
            => /\ perm = "true"
               /\ writes' = writes + 1
               /\ file' = message[1].to
               /\ file' = EditsApplied(fileContent, editArgs)]_vars

\* C37 witness: edit has written the new content of its request after another
\* process had changed the file, and the same edit on the changed file would
\* have given another content.
C37_Witness ==
    /\ mpc = "edit_done"
    /\ editResult = "ok"
    /\ changed
    /\ writes = 1
    /\ file = message[1].to
    /\ \E c \in StringsUpTo(MaxFileLen) :
          /\ c # fileContent
          /\ StrContains(c, editArgs[1].old_string)
          /\ ApplyEdit(c, editArgs[1]) # file

\* msgs holds no tool result: no tool, and so no read, has completed in the
\* conversation.
NoToolResult(msgs) == \A i \in 1..Len(msgs) : msgs[i].k # "tool_result"

\* C31: edit, called in a conversation in which no read has completed, ends
\* at once with an error as the result of the call and sends no request for
\* permission.
C31_UnreadFileIsRefused ==
    [][\A shape \in ArgShapes, pre \in {"pass", "fail"} :
          (ToolDispatch("edit", shape, pre) /\ NoToolResult(chat) /\ wpc' # "panicked")
              => /\ chat' = Append(chat, ToolResultMsg(CallId, "error"))
                 /\ UNCHANGED <<perm, evq>>]_vars

====
